---- MODULE Spec2Model ----
(***************************************************************************)
(* State-machine model of the 3D point-cloud viewer: the App state         *)
(* (src/App.tsx), the file ingestion (FileUpload.processCSV) and the       *)
(* DataVisualizer component with its per-frame picking, debounced hover,   *)
(* click selection and one-shot screenshot trigger                         *)
(* (src/components/DataVisualizer.tsx).                                    *)
(*                                                                         *)
(* Time is measured in milliseconds.  window.setTimeout is modelled by a   *)
(* table of pending timers, each with the time left until it is due; time  *)
(* never advances past a due timer (the callback runs first).              *)
(***************************************************************************)
EXTENDS Integers, Sequences, FiniteSets, TLC

(***************************************************************************)
(* Bounds of the model.                                                    *)
(***************************************************************************)
MaxPoints == 2          \* longest ingested point sequence
MaxTick == 25           \* largest single advance of the clock, in ms
MaxResetTimers == 2     \* most capture-reset timers pending at once
MaxCategories == 11     \* most distinct labels in one ingested file
MaxReads == 2           \* most FileReader reads in progress at once

(***************************************************************************)
(* Program constants.                                                      *)
(***************************************************************************)
HoverDelay == 50        \* window.setTimeout(..., 50) in handleHover
CaptureDelay == 100     \* setTimeout(..., 100) in takeScreenshot

Labels == {"A", "1"}

colorPalette ==
  << "#60a5fa", "#f87171", "#34d399", "#fbbf24", "#a78bfa",
     "#f472b6", "#2dd4bf", "#fb923c", "#818cf8", "#94a3b8" >>

\* the value of a DataPoint | null reference that is null
Null == [null |-> TRUE]

Min(S) == CHOOSE m \in S : \A n \in S : m <= n

\* property names that every object literal inherits from Object.prototype:
\* reading obj[k] for such a k yields a truthy value that is not an own key
ProtoKeys == {"constructor", "__proto__", "toString"}

\* the inherited value read under such a name, written as its string form
Inherited(k) ==
  IF k = "__proto__" THEN "[object Object]"
  ELSE IF k = "constructor" THEN "function Object() { [native code] }"
  ELSE "function toString() { [native code] }"

(***************************************************************************)
(* Ingestion: FileUpload.processCSV, applied to the already split and      *)
(* trimmed columns of the non-blank lines.                                 *)
(***************************************************************************)
RECURSIVE ProcessRows(_, _, _, _)
ProcessRows(rows, categoryColors, colorIndex, out) ==
  IF rows = << >> THEN out
  ELSE LET cols == Head(rows)
           label == IF cols.label = "" THEN "Unlabeled" ELSE cols.label
           isNew == label \notin DOMAIN categoryColors /\ label \notin ProtoKeys
           colors == IF isNew
                     THEN categoryColors @@
                          (label :> colorPalette[(colorIndex % Len(colorPalette)) + 1])
                     ELSE categoryColors
           idx == IF isNew THEN colorIndex + 1 ELSE colorIndex
           point == [x |-> cols.x, y |-> cols.y, z |-> cols.z, label |-> label,
                     metadata |-> cols.metadata,
                     color |-> IF label \in DOMAIN colors THEN colors[label]
                               ELSE Inherited(label)]
       IN ProcessRows(Tail(rows), colors, idx, Append(out, point))

processCSV(rows) == ProcessRows(rows, << >>, 0, << >>)

\* Array.from(new Set(points.map(p => p.label))): first-occurrence order
RECURSIVE DistinctLabels(_, _)
DistinctLabels(pts, acc) ==
  IF pts = << >> THEN acc
  ELSE LET l == Head(pts).label
       IN DistinctLabels(Tail(pts),
                         IF \E i \in 1..Len(acc) : acc[i] = l THEN acc
                         ELSE Append(acc, l))

\* default styles whose colour index stops at the end of the palette
DefaultStyles_NoCycle(cats) ==
  [c \in {cats[i] : i \in 1..Len(cats)} |->
     LET i == CHOOSE j \in 1..Len(cats) : cats[j] = c
     IN [color |-> colorPalette[Min({i, Len(colorPalette)})],
         shape |-> "circle",
         visible |-> TRUE]]

\* the default styles built by handleDataLoaded
DefaultStyles(cats) ==
  [c \in {cats[i] : i \in 1..Len(cats)} |->
     LET i == CHOOSE j \in 1..Len(cats) : cats[j] = c
     IN [color |-> colorPalette[((i - 1) % Len(colorPalette)) + 1],
         shape |-> "circle",
         visible |-> TRUE]]

(***************************************************************************)
(* Key order of a JavaScript object: keys that are canonical array indices *)
(* come first in ascending numeric order, then the other string keys in    *)
(* insertion order.                                                        *)
(***************************************************************************)
IndexValue == ("0" :> 0) @@ ("1" :> 1) @@ ("2" :> 2)

RECURSIVE SortedIndexKeys(_)
SortedIndexKeys(S) ==
  IF S = {} THEN << >>
  ELSE LET k == CHOOSE a \in S : \A b \in S : IndexValue[a] <= IndexValue[b]
       IN <<k>> \o SortedIndexKeys(S \ {k})

ObjectKeys(inserted) ==
  LET idxKeys == {inserted[i] : i \in 1..Len(inserted)} \cap DOMAIN IndexValue
  IN SortedIndexKeys(idxKeys)
     \o SelectSeq(inserted, LAMBDA k : k \notin DOMAIN IndexValue)

\* the error thrown by a call of a value that is not a function
TypeError == [error |-> "TypeError"]

\* pointsByCategory: label -> the points with that label, in input order.
\* groups[p.label] is created only if it reads falsy; under an inherited
\* name it reads truthy, and groups[p.label].push is not a function.
pointsByCategory(pts) ==
  IF \E i \in 1..Len(pts) : pts[i].label \in ProtoKeys THEN TypeError
  ELSE [c \in {pts[i].label : i \in 1..Len(pts)} |->
          SelectSeq(pts, LAMBDA p : p.label = c)]

\* Object.entries(pointsByCategory): the order of the CategoryPoints batches
BatchOrder(pts) == ObjectKeys(DistinctLabels(pts, << >>))

(***************************************************************************)
(* The CategoryPoints batches.                                             *)
(***************************************************************************)
\* the value a Float32Array element holds after v is stored (v a natural
\* number below 2^25): exact up to 2^24, then the nearest even number, ties
\* to the even significand
Fround(v) ==
  IF v <= 2^24 THEN v
  ELSE LET lo == (v \div 2) * 2
       IN IF v = lo THEN v
          ELSE IF (lo \div 2) % 2 = 0 THEN lo ELSE lo + 2

\* the positions buffer of a batch: new Float32Array(points.length * 3)
\* filled with x, y, z of each point in order
positions(pts) ==
  [j \in 1..(3 * Len(pts)) |->
     LET p == pts[((j - 1) \div 3) + 1]
         k == (j - 1) % 3
     IN Fround(IF k = 0 THEN p.x ELSE IF k = 1 THEN p.y ELSE p.z)]

\* the CategoryPoints elements rendered by DataVisualizer, in the order of
\* Object.entries(pointsByCategory)
Batches(pts, styles) ==
  LET order == BatchOrder(pts)
      groups == pointsByCategory(pts)
  IN [i \in 1..Len(order) |->
        [cat |-> order[i],
         points |-> groups[order[i]],
         positions |-> positions(groups[order[i]]),
         style |-> IF order[i] \in DOMAIN styles THEN styles[order[i]]
                   ELSE Null]]

\* the createShapeTexture calls of a render that replaces the batches old
\* by new: the texture's useMemo([style.shape]) of a batch computes on mount
\* and whenever the shape of that batch (keyed by category) changed
Rasterize(old, new) ==
  LET fresh(b) == \A i \in 1..Len(old) :
                    old[i].cat = b.cat => old[i].style.shape # b.style.shape
      calls == SelectSeq(new, fresh)
  IN [i \in 1..Len(calls) |-> calls[i].style.shape]


(***************************************************************************)
(* Inputs.  A file is a sequence of rows; row i lies at x = i so that the  *)
(* points of one file are pairwise distinct.  The pointer and the camera   *)
(* are represented by what the pointer ray intersects: the indices of the  *)
(* points within the picking threshold, ordered by distance along the ray. *)
(***************************************************************************)
RowsOf(ls) ==
  [i \in 1..Len(ls) |->
     [x |-> i, y |-> 0, z |-> 0, label |-> ls[i], metadata |-> ""]]

InputFiles == {RowsOf(ls) : ls \in UNION {[1..k -> Labels] : k \in 0..MaxPoints}}

Rays(n) ==
  {r \in UNION {[1..k -> 1..n] : k \in 0..n} :
     \A i, j \in 1..Len(r) : i # j => r[i] # r[j]}

\* the eye button of Sidebar: onUpdateStyle(cat, { visible: !style.visible })
StyleUpdates == {[visible |-> FALSE], [visible |-> TRUE]}

\* the files read in the specification of the asynchronous read: files
\* without a common point, and the empty file
ReadFiles == {RowsOf(<<"A">>), RowsOf(<<"1">>), RowsOf(<< >>)}

\* the file loaded in the specification of the screenshot trigger
CaptureFiles == {RowsOf(<<"A">>)}

CaptureOutcomes == {"ok", "empty", "throws"}

\* Inputs of the specification of ingestion and styling.  Rows have pairwise
\* distinct coordinates, and z lies beyond the integers that a 32-bit float
\* represents exactly.  Labels include an integer-like key and a name that
\* objects inherit; one file has MaxCategories distinct labels, the first
\* of them twice.
AppLabels == Labels \cup {"constructor"}

CategoryNames ==
  << "K01", "K02", "K03", "K04", "K05", "K06",
     "K07", "K08", "K09", "K10", "K11", "K12" >>

AppRows(ls) ==
  [i \in 1..Len(ls) |->
     [x |-> i, y |-> 10 + i, z |-> 2^24 + i, label |-> ls[i], metadata |-> ""]]

AppFiles ==
  {AppRows(ls) : ls \in UNION {[1..k -> AppLabels] : k \in 0..MaxPoints}}
  \cup {AppRows(SubSeq(CategoryNames, 1,
                       Min({MaxCategories, Len(CategoryNames)}))
                \o <<CategoryNames[1]>>)}

\* the controls of Sidebar: the eye button, the shape buttons and the
\* colour swatches
AllStyleUpdates ==
  StyleUpdates \cup {[shape |-> "square"], [shape |-> "circle"],
                     [color |-> colorPalette[2]]}

VARIABLES
  points, categories, categoryStyles, showAxes,     \* App state
  hoveredPoint, selectedPoint, screenshotTrigger,   \* DataVisualizer state
  hoverTimeout,                                     \* hoverTimeout.current
  timers,           \* pending window.setTimeout callbacks
  ray,              \* what the pointer ray intersects
  tooltip, panel,   \* rendered overlays: the point shown, or Null
  capturePending,   \* SceneCapture's effect is scheduled to call onCapture
  lastCapture,      \* outcome of the latest handleCapture call
  crashed,          \* an uncaught error unmounted the application
  lastOp,           \* the operation that produced this state
  missAge,          \* ms since the first miss frame not followed by a hit
  frameHit,         \* the latest frame's ray hit a visible point
  activeAge,        \* ms since screenshotTrigger became active
  shots,            \* onCapture calls since the latest activation
  captureSawOverlay,\* an onCapture call ran with an overlay displayed
  batches,          \* the rendered CategoryPoints elements, in order
  highlight,        \* the rendered SelectionHighlight elements (their points)
  rasterized,       \* createShapeTexture calls made by the latest operation
  rasterizedShapes, \* shapes passed to createShapeTexture so far
  lastArgs,         \* arguments of the latest App operation, else << >>
  reads             \* files whose FileReader.readAsText is in progress

appVars == <<points, categories, categoryStyles, showAxes>>
visVars == <<hoveredPoint, selectedPoint, screenshotTrigger, hoverTimeout>>
outVars == <<tooltip, panel, capturePending, highlight>>
sceneVars == <<batches, rasterizedShapes>>
callVars == <<lastOp, lastArgs, rasterized>>
captureVars == <<lastCapture, crashed, shots, captureSawOverlay>>
vars == <<appVars, visVars, timers, ray, outVars, captureVars, sceneVars,
          callVars, missAge, frameHit, activeAge, reads>>

\* the record of an operation that takes no argument and rasterizes nothing
Called(op) == lastOp' = op /\ lastArgs' = << >> /\ rasterized' = << >>

\* an App that renders DataVisualizer whether or not there are points
Mounted_Always == TRUE

\* App.tsx: DataVisualizer is rendered only while there are points
Mounted == Len(points) > 0

Ready == ~crashed /\ ~capturePending

(***************************************************************************)
(* Picking.                                                                *)
(***************************************************************************)
\* raycaster.intersectObject(meshRef.current)[0] for the batch of category
\* cat: the closest intersected point of that batch, or Null
PickInCategory(r, pts, cat) ==
  LET hits == SelectSeq(r, LAMBDA i : pts[i].label = cat)
  IN IF hits = << >> THEN Null ELSE pts[hits[1]]

\* a pick that also tests the batches of invisible categories
PickVisible_AnyPoint(r, pts, styles) ==
  IF r = << >> THEN Null ELSE pts[r[1]]

\* the closest intersected point over all batches that are in the scene
\* (CategoryPoints renders no <points> object when style.visible is false)
PickVisible(r, pts, styles) ==
  LET hits == SelectSeq(r, LAMBDA i : styles[pts[i].label].visible)
  IN IF hits = << >> THEN Null ELSE pts[hits[1]]

(***************************************************************************)
(* window.setTimeout / window.clearTimeout on the table of pending timers. *)
(* A timer is [id, cb, left]; ids of pending timers are distinct and a new *)
(* id differs from every id still held by the program.                     *)
(***************************************************************************)
NewTimerId(tms, held) ==
  Min({i \in 1..(Cardinality(tms) + 2) :
         i # held /\ \A tm \in tms : tm.id # i})

ClearTimeout(tms, id) == {tm \in tms : tm.id # id}

\* a handleHover that does not cancel the timer armed before
handleHover_NoCancel(st, point) ==
  IF point # Null
  THEN [hovered |-> point, timeout |-> st.timeout, timers |-> st.timers]
  ELSE LET id == NewTimerId(st.timers, 0)
       IN [hovered |-> st.hovered, timeout |-> id,
           timers |-> st.timers \cup
                      {[id |-> id, cb |-> "clearHover", left |-> HoverDelay]}]

\* handleHover(point) applied to st = [hovered, timeout, timers]
handleHover(st, point) ==
  LET cleared == IF st.timeout # 0 THEN ClearTimeout(st.timers, st.timeout)
                 ELSE st.timers
  IN IF point # Null
     THEN [hovered |-> point, timeout |-> st.timeout, timers |-> cleared]
     ELSE LET id == NewTimerId(cleared, 0)
          IN [hovered |-> st.hovered, timeout |-> id,
              timers |-> cleared \cup
                         {[id |-> id, cb |-> "clearHover", left |-> HoverDelay]}]

\* the useFrame callback of one CategoryPoints batch
CategoryFrame(st, r, pts, styles, cat) ==
  IF ~styles[cat].visible THEN st
  ELSE handleHover(st, PickInCategory(r, pts, cat))

\* one rendered frame: the useFrame callbacks of the batches, in batch order
RECURSIVE FrameFold(_, _, _, _, _)
FrameFold(cats, st, r, pts, styles) ==
  IF cats = << >> THEN st
  ELSE FrameFold(Tail(cats), CategoryFrame(st, r, pts, styles, Head(cats)),
                 r, pts, styles)

(***************************************************************************)
(* Rendering of DataVisualizer.                                            *)
(***************************************************************************)
\* a tooltip guard that does not test selectedPoint
TooltipOutput_OverSelection(h, s, t) == IF h # Null /\ ~t THEN h ELSE Null

\* {hoveredPoint && !selectedPoint && !screenshotTrigger && <Html ...>}
TooltipOutput(h, s, t) == IF h # Null /\ s = Null /\ ~t THEN h ELSE Null

\* a panel guard that does not test screenshotTrigger
PanelOutput_DuringCapture(s, t) == IF s # Null THEN s ELSE Null

\* {selectedPoint && !screenshotTrigger && <div ...>}
PanelOutput(s, t) == IF s # Null /\ ~t THEN s ELSE Null

\* a highlight that is added per selected point and removed on deselection
HighlightOutput_Accumulating(s) == IF s # Null THEN highlight \cup {s} ELSE {}

\* {selectedPoint && <SelectionHighlight position={...} />}
HighlightOutput(s) == IF s # Null THEN {s} ELSE {}

\* an effect without dependencies: it runs after every render
SceneCaptureFires_EveryRender(rendered, before, after) == rendered /\ after

\* SceneCapture's effect has [trigger, gl, onCapture] as dependencies, of
\* which only trigger ever changes: it runs after a render that changed
\* trigger, and calls onCapture if trigger is then true
SceneCaptureFires(rendered, before, after) ==
  rendered /\ before # after /\ after

\* a render of DataVisualizer committing state h, s, t
Commit(rendered, h, s, t) ==
  /\ tooltip' = TooltipOutput(h, s, t)
  /\ panel' = PanelOutput(s, t)
  /\ highlight' = HighlightOutput(s)
  /\ capturePending' = SceneCaptureFires(rendered, screenshotTrigger, t)

\* a state update re-renders only if some state value changed
StateChanged(h, s, t) ==
  h # hoveredPoint \/ s # selectedPoint \/ t # screenshotTrigger

(***************************************************************************)
(* Initial state: App's useState value; no DataVisualizer is mounted.      *)
(***************************************************************************)
Unmounted ==
  /\ hoveredPoint' = Null
  /\ selectedPoint' = Null
  /\ screenshotTrigger' = FALSE
  /\ hoverTimeout' = 0
  /\ timers' = {}
  /\ ray' = << >>
  /\ tooltip' = Null
  /\ panel' = Null
  /\ highlight' = {}
  /\ capturePending' = FALSE
  /\ missAge' = -1
  /\ frameHit' = FALSE
  /\ activeAge' = 0

Init ==
  /\ points = << >>
  /\ categories = << >>
  /\ categoryStyles = << >>
  /\ showAxes = TRUE
  /\ hoveredPoint = Null
  /\ selectedPoint = Null
  /\ screenshotTrigger = FALSE
  /\ hoverTimeout = 0
  /\ timers = {}
  /\ ray = << >>
  /\ tooltip = Null
  /\ panel = Null
  /\ capturePending = FALSE
  /\ lastCapture = "none"
  /\ crashed = FALSE
  /\ lastOp = "Init"
  /\ missAge = -1
  /\ frameHit = FALSE
  /\ activeAge = 0
  /\ shots = 0
  /\ captureSawOverlay = FALSE
  /\ batches = << >>
  /\ highlight = {}
  /\ rasterized = << >>
  /\ rasterizedShapes = {}
  /\ lastArgs = << >>
  /\ reads = {}

(***************************************************************************)
(* Operations of App.                                                      *)
(***************************************************************************)
\* FileUpload (rendered only while points is empty) reads a file and calls
\* handleDataLoaded; a non-empty result mounts a fresh DataVisualizer.  The
\* timers of an unmounted DataVisualizer only call the state setters of that
\* instance, which have no effect, so they leave the table on unmount.
\* The first render of DataVisualizer computes pointsByCategory; if that
\* throws, no error boundary catches it and the application unmounts.
handleDataLoaded(rows) ==
  /\ Ready /\ ~Mounted
  /\ LET pts == processCSV(rows)
         cats == DistinctLabels(pts, << >>)
         styles == DefaultStyles(cats)
     IN IF pointsByCategory(pts) = TypeError
        THEN /\ crashed' = TRUE
             /\ points' = << >>
             /\ categories' = << >>
             /\ categoryStyles' = << >>
             /\ batches' = << >>
             /\ rasterized' = << >>
        ELSE /\ crashed' = crashed
             /\ points' = pts
             /\ categories' = cats
             /\ categoryStyles' = styles
             /\ batches' = Batches(pts, styles)
             /\ rasterized' = Rasterize(<< >>, batches')
  /\ rasterizedShapes' =
       rasterizedShapes \cup {rasterized'[i] : i \in 1..Len(rasterized')}
  /\ UNCHANGED showAxes
  /\ Unmounted
  /\ lastOp' = "handleDataLoaded"
  /\ lastArgs' = <<rows>>
  /\ UNCHANGED <<lastCapture, shots, captureSawOverlay, reads>>

(***************************************************************************)
(* The asynchronous file read of FileUpload.  handleFileChange and onDrop  *)
(* only start a FileReader; its onload callback runs later, as a task of   *)
(* its own, and calls processCSV and so handleDataLoaded, whatever App     *)
(* renders by then.  handleDataLoaded above is the run in which nothing    *)
(* else happens between the start of a read and its completion.            *)
(***************************************************************************)
\* handleFileChange / onDrop: reader.readAsText(file); FileUpload is
\* rendered only while there are no points
readAsText(rows) ==
  /\ Ready /\ ~Mounted
  /\ Cardinality(reads) < MaxReads
  /\ rows \notin reads
  /\ reads' = reads \cup {rows}
  /\ Called("readAsText")
  /\ UNCHANGED <<appVars, sceneVars, visVars, timers, ray, outVars,
                 captureVars, missAge, frameHit, activeAge>>

\* reader.onload: processCSV(text), then handleDataLoaded(points).  A
\* DataVisualizer that is mounted and still has points to show stays
\* mounted and keeps its state; it is re-rendered with the new points, and
\* what the pointer ray intersects is no longer known (taken as nothing
\* until the pointer or the camera moves).
onload(rows) ==
  /\ Ready
  /\ rows \in reads
  /\ reads' = reads \ {rows}
  /\ LET pts == processCSV(rows)
         cats == DistinctLabels(pts, << >>)
         styles == DefaultStyles(cats)
     IN IF pointsByCategory(pts) = TypeError
        THEN /\ crashed' = TRUE
             /\ points' = << >>
             /\ categories' = << >>
             /\ categoryStyles' = << >>
             /\ batches' = << >>
             /\ rasterized' = << >>
             /\ Unmounted
        ELSE /\ crashed' = crashed
             /\ points' = pts
             /\ categories' = cats
             /\ categoryStyles' = styles
             /\ batches' = Batches(pts, styles)
             /\ IF Mounted /\ pts # << >>
                THEN /\ rasterized' = Rasterize(batches, batches')
                     /\ Commit(TRUE, hoveredPoint, selectedPoint,
                               screenshotTrigger)
                     /\ ray' = << >>
                     /\ UNCHANGED <<visVars, timers, missAge, frameHit,
                                    activeAge>>
                ELSE /\ rasterized' = Rasterize(<< >>, batches')
                     /\ Unmounted
  /\ rasterizedShapes' =
       rasterizedShapes \cup {rasterized'[i] : i \in 1..Len(rasterized')}
  /\ UNCHANGED showAxes
  /\ lastOp' = "onload"
  /\ lastArgs' = <<rows>>
  /\ UNCHANGED <<lastCapture, shots, captureSawOverlay>>

\* a clearData that empties points and categories but keeps the styles
clearData_KeepsStyles ==
  /\ Ready /\ Mounted
  /\ points' = << >>
  /\ categories' = << >>
  /\ categoryStyles' = categoryStyles
  /\ showAxes' = TRUE
  /\ batches' = << >>
  /\ Unmounted
  /\ Called("clearData")
  /\ UNCHANGED <<captureVars, rasterizedShapes, reads>>

\* setState({ points: [], categories: [], categoryStyles: {}, ... })
clearData ==
  /\ Ready /\ Mounted
  /\ points' = << >>
  /\ categories' = << >>
  /\ categoryStyles' = << >>
  /\ showAxes' = TRUE
  /\ batches' = << >>
  /\ Unmounted
  /\ Called("clearData")
  /\ UNCHANGED <<captureVars, rasterizedShapes, reads>>

\* an update that merges into the category's default style instead of its
\* current one
updateCategoryStyle_OntoDefault(category, updates) ==
  /\ Ready /\ Mounted
  /\ \E i \in 1..Len(categories) : categories[i] = category
  /\ categoryStyles' =
       [categoryStyles EXCEPT
          ![category] = updates @@ DefaultStyles(categories)[category]]
  /\ batches' = Batches(points, categoryStyles')
  /\ rasterized' = Rasterize(batches, batches')
  /\ rasterizedShapes' =
       rasterizedShapes \cup {rasterized'[i] : i \in 1..Len(rasterized')}
  /\ Commit(TRUE, hoveredPoint, selectedPoint, screenshotTrigger)
  /\ lastOp' = "updateCategoryStyle"
  /\ lastArgs' = <<category, updates>>
  /\ UNCHANGED <<reads, points, categories, showAxes, visVars, timers, ray,
                 captureVars, missAge, frameHit, activeAge>>

\* Sidebar offers the style controls for the entries of state.categories
updateCategoryStyle(category, updates) ==
  /\ Ready /\ Mounted
  /\ \E i \in 1..Len(categories) : categories[i] = category
  /\ categoryStyles' =
       [categoryStyles EXCEPT ![category] = updates @@ categoryStyles[category]]
  /\ batches' = Batches(points, categoryStyles')
  /\ rasterized' = Rasterize(batches, batches')
  /\ rasterizedShapes' =
       rasterizedShapes \cup {rasterized'[i] : i \in 1..Len(rasterized')}
  /\ Commit(TRUE, hoveredPoint, selectedPoint, screenshotTrigger)
  /\ lastOp' = "updateCategoryStyle"
  /\ lastArgs' = <<category, updates>>
  /\ UNCHANGED <<reads, points, categories, showAxes, visVars, timers, ray,
                 captureVars, missAge, frameHit, activeAge>>

toggleAxes ==
  /\ Ready /\ Mounted
  /\ showAxes' = ~showAxes
  /\ Commit(TRUE, hoveredPoint, selectedPoint, screenshotTrigger)
  /\ Called("toggleAxes")
  /\ UNCHANGED <<reads, points, categories, categoryStyles, sceneVars, visVars,
                 timers, ray,
                 captureVars, missAge, frameHit, activeAge>>

(***************************************************************************)
(* Operations of DataVisualizer.                                           *)
(***************************************************************************)
\* the pointer moves, or the camera orbits under it
PointerMove(r) ==
  /\ Ready /\ Mounted
  /\ r \in Rays(Len(points))
  /\ r # ray
  /\ ray' = r
  /\ Called("PointerMove")
  /\ UNCHANGED <<appVars, sceneVars, reads, visVars, timers, outVars, captureVars,
                 missAge, frameHit, activeAge>>

\* one rendered frame: every CategoryPoints.useFrame runs once
Frame ==
  /\ Ready /\ Mounted
  /\ LET st == FrameFold(BatchOrder(points),
                         [hovered |-> hoveredPoint, timeout |-> hoverTimeout,
                          timers |-> timers],
                         ray, points, categoryStyles)
         pick == PickVisible(ray, points, categoryStyles)
         \* some batch is tested, so the frame reports a hit or a miss
         reported == \E c \in DOMAIN categoryStyles : categoryStyles[c].visible
     IN /\ hoveredPoint' = st.hovered
        /\ hoverTimeout' = st.timeout
        /\ timers' = st.timers
        /\ Commit(StateChanged(st.hovered, selectedPoint, screenshotTrigger),
                  st.hovered, selectedPoint, screenshotTrigger)
        /\ frameHit' = (pick # Null)
        /\ missAge' = IF pick # Null THEN -1
                      ELSE IF reported /\ hoveredPoint # Null /\ missAge = -1
                      THEN 0
                      ELSE missAge
  /\ Called("Frame")
  /\ UNCHANGED <<appVars, sceneVars, reads, selectedPoint, screenshotTrigger, ray,
                 captureVars, activeAge>>

\* a click on the canvas: onClick of the closest <points> object under the
\* pointer (which stops propagation), or onPointerMissed if there is none
Click ==
  /\ Ready /\ Mounted
  /\ LET target == PickVisible(ray, points, categoryStyles)
     IN /\ selectedPoint' = target
        /\ Commit(StateChanged(hoveredPoint, target, screenshotTrigger),
                  hoveredPoint, target, screenshotTrigger)
  /\ Called("Click")
  /\ UNCHANGED <<appVars, sceneVars, reads,
                 hoveredPoint, screenshotTrigger, hoverTimeout,
                 timers, ray, captureVars, missAge, frameHit, activeAge>>

\* the close button of the detail panel
ClosePanel ==
  /\ Ready /\ Mounted
  /\ panel # Null
  /\ selectedPoint' = Null
  /\ Commit(StateChanged(hoveredPoint, Null, screenshotTrigger),
            hoveredPoint, Null, screenshotTrigger)
  /\ Called("ClosePanel")
  /\ UNCHANGED <<appVars, sceneVars, reads,
                 hoveredPoint, screenshotTrigger, hoverTimeout,
                 timers, ray, captureVars, missAge, frameHit, activeAge>>

\* the callback armed by handleHover(null): setHoveredPoint(null)
HoverTimerFire_ClearsSelection(tm) ==
  /\ Ready /\ Mounted
  /\ tm \in timers /\ tm.cb = "clearHover" /\ tm.left = 0
  /\ timers' = timers \ {tm}
  /\ hoveredPoint' = Null
  /\ selectedPoint' = Null
  /\ Commit(StateChanged(Null, Null, screenshotTrigger),
            Null, Null, screenshotTrigger)
  /\ missAge' = -1
  /\ Called("HoverTimerFire")
  /\ UNCHANGED <<appVars, sceneVars, reads, screenshotTrigger, hoverTimeout, ray,
                 captureVars, frameHit, activeAge>>

\* the hover-clear timer is due: setHoveredPoint(null)
HoverTimerFire(tm) ==
  /\ Ready /\ Mounted
  /\ tm \in timers /\ tm.cb = "clearHover" /\ tm.left = 0
  /\ timers' = timers \ {tm}
  /\ hoveredPoint' = Null
  /\ Commit(StateChanged(Null, selectedPoint, screenshotTrigger),
            Null, selectedPoint, screenshotTrigger)
  /\ missAge' = -1
  /\ Called("HoverTimerFire")
  /\ UNCHANGED <<appVars, sceneVars, reads,
                 selectedPoint, screenshotTrigger, hoverTimeout, ray,
                 captureVars, frameHit, activeAge>>

ResetTimers == {tm \in timers : tm.cb = "resetTrigger"}

\* a takeScreenshot that cancels the pending reset before arming a new one
takeScreenshot_Debounced ==
  /\ Ready /\ Mounted
  /\ Cardinality(ResetTimers) < MaxResetTimers
  /\ screenshotTrigger' = TRUE
  /\ timers' = (timers \ ResetTimers) \cup
       {[id |-> NewTimerId(timers, hoverTimeout), cb |-> "resetTrigger",
         left |-> CaptureDelay]}
  /\ Commit(StateChanged(hoveredPoint, selectedPoint, TRUE),
            hoveredPoint, selectedPoint, TRUE)
  /\ activeAge' = IF screenshotTrigger THEN activeAge ELSE 0
  /\ shots' = IF screenshotTrigger THEN shots ELSE 0
  /\ Called("takeScreenshot")
  /\ UNCHANGED <<appVars, sceneVars, reads,
                 hoveredPoint, selectedPoint, hoverTimeout, ray,
                 lastCapture, crashed, captureSawOverlay, missAge, frameHit>>

\* App.handleScreenshot -> visualizerRef.current.takeScreenshot()
takeScreenshot ==
  /\ Ready /\ Mounted
  /\ Cardinality(ResetTimers) < MaxResetTimers
  /\ screenshotTrigger' = TRUE
  /\ timers' = timers \cup
       {[id |-> NewTimerId(timers, hoverTimeout), cb |-> "resetTrigger",
         left |-> CaptureDelay]}
  /\ Commit(StateChanged(hoveredPoint, selectedPoint, TRUE),
            hoveredPoint, selectedPoint, TRUE)
  /\ activeAge' = IF screenshotTrigger THEN activeAge ELSE 0
  /\ shots' = IF screenshotTrigger THEN shots ELSE 0
  /\ Called("takeScreenshot")
  /\ UNCHANGED <<appVars, sceneVars, reads,
                 hoveredPoint, selectedPoint, hoverTimeout, ray,
                 lastCapture, crashed, captureSawOverlay, missAge, frameHit>>

\* the callback armed by takeScreenshot: setScreenshotTrigger(false)
ResetTimerFire(tm) ==
  /\ Ready /\ Mounted
  /\ tm \in timers /\ tm.cb = "resetTrigger" /\ tm.left = 0
  /\ timers' = timers \ {tm}
  /\ screenshotTrigger' = FALSE
  /\ Commit(StateChanged(hoveredPoint, selectedPoint, FALSE),
            hoveredPoint, selectedPoint, FALSE)
  /\ activeAge' = 0
  /\ Called("ResetTimerFire")
  /\ UNCHANGED <<appVars, sceneVars, reads,
                 hoveredPoint, selectedPoint, hoverTimeout, ray,
                 captureVars, missAge, frameHit>>

\* what takeScreenshot hands back to its caller: the handle declares
\* takeScreenshot: () => void and handleScreenshot ignores the value
takeScreenshotResult == "void"

\* SceneCapture's effect calls onCapture = handleCapture, whose
\* gl.domElement.toDataURL either yields an image, yields the empty data URL
\* (nothing could be read back or encoded), or throws.  handleCapture catches
\* nothing and no error boundary exists: a throw unmounts the application.
SceneCaptureEffect(outcome) ==
  /\ ~crashed /\ capturePending
  /\ outcome \in CaptureOutcomes
  /\ lastCapture' = outcome
  /\ shots' = IF shots < 2 THEN shots + 1 ELSE shots
  /\ captureSawOverlay' = (captureSawOverlay \/ tooltip # Null \/ panel # Null
                             \/ ~screenshotTrigger)
  /\ Called("SceneCapture")
  /\ IF outcome = "throws"
     THEN /\ crashed' = TRUE
          /\ points' = << >>
          /\ categories' = << >>
          /\ categoryStyles' = << >>
          /\ showAxes' = TRUE
          /\ batches' = << >>
          /\ UNCHANGED <<rasterizedShapes, reads>>
          /\ Unmounted
     ELSE /\ capturePending' = FALSE
          /\ UNCHANGED <<crashed, appVars, sceneVars, reads, visVars, timers,
                         ray, tooltip, panel, highlight,
                         missAge, frameHit, activeAge>>

\* time passes, up to the next due timer
Tick ==
  /\ Ready /\ Mounted
  /\ LET d == Min({MaxTick} \cup {tm.left : tm \in timers})
     IN /\ d > 0
        /\ timers' = {[tm EXCEPT !.left = @ - d] : tm \in timers}
        /\ missAge' = IF missAge = -1 THEN -1
                      ELSE Min({missAge + d, HoverDelay + MaxTick})
        /\ activeAge' = IF screenshotTrigger
                        THEN Min({activeAge + d, CaptureDelay + MaxTick})
                        ELSE 0
  /\ Called("Tick")
  /\ UNCHANGED <<appVars, sceneVars, reads,
                 visVars, ray, outVars, captureVars, frameHit>>

(***************************************************************************)
(* Spec: ingestion, visibility, picking, hover and selection.              *)
(***************************************************************************)
Next ==
  \/ \E rows \in InputFiles : handleDataLoaded(rows)
  \/ clearData
  \/ \E c \in Labels, u \in StyleUpdates : updateCategoryStyle(c, u)
  \/ \E r \in Rays(MaxPoints) : PointerMove(r)
  \/ Frame
  \/ Click
  \/ ClosePanel
  \/ \E tm \in timers : HoverTimerFire(tm)
  \/ Tick

Spec == Init /\ [][Next]_vars

(***************************************************************************)
(* SpecCapture: the screenshot trigger and the overlays, on one file.      *)
(***************************************************************************)
NextCapture ==
  \/ \E rows \in CaptureFiles : handleDataLoaded(rows)
  \/ clearData
  \/ toggleAxes
  \/ \E r \in Rays(MaxPoints) : PointerMove(r)
  \/ Frame
  \/ Click
  \/ ClosePanel
  \/ \E tm \in timers : HoverTimerFire(tm)
  \/ takeScreenshot
  \/ \E tm \in timers : ResetTimerFire(tm)
  \/ \E o \in CaptureOutcomes : SceneCaptureEffect(o)
  \/ Tick

SpecCapture == Init /\ [][NextCapture]_vars

\* ingestion and styling: the operations of App
NextApp ==
  \/ \E rows \in AppFiles : handleDataLoaded(rows)
  \/ clearData
  \/ \E c \in Labels \cup {CategoryNames[1]}, u \in AllStyleUpdates :
       updateCategoryStyle(c, u)
  \/ toggleAxes

SpecApp == Init /\ [][NextApp]_vars

\* the files read in the specification of all operations: the one-point
\* file and a file without points
AllFiles == CaptureFiles \cup {RowsOf(<< >>)}

\* every operation on one loaded point: asynchronous file reads, hover,
\* click, styling and capture, with the screenshot button pressed only while
\* no capture is in progress
NextAll ==
  \/ \E rows \in AllFiles : readAsText(rows)
  \/ \E rows \in reads : onload(rows)
  \/ clearData
  \/ \E c \in Labels, u \in StyleUpdates : updateCategoryStyle(c, u)
  \/ toggleAxes
  \/ \E r \in Rays(MaxPoints) : PointerMove(r)
  \/ Frame
  \/ Click
  \/ ClosePanel
  \/ \E tm \in timers : HoverTimerFire(tm)
  \/ ~screenshotTrigger /\ takeScreenshot
  \/ \E tm \in timers : ResetTimerFire(tm)
  \/ \E o \in CaptureOutcomes : SceneCaptureEffect(o)
  \/ Tick

SpecAll == Init /\ [][NextAll]_vars

\* hover, click and styling with asynchronous file reads
NextReads ==
  \/ \E rows \in ReadFiles : readAsText(rows)
  \/ \E rows \in reads : onload(rows)
  \/ clearData
  \/ \E c \in Labels, u \in StyleUpdates : updateCategoryStyle(c, u)
  \/ \E r \in Rays(MaxPoints) : PointerMove(r)
  \/ Frame
  \/ Click
  \/ ClosePanel
  \/ \E tm \in timers : HoverTimerFire(tm)
  \/ Tick

SpecReads == Init /\ [][NextReads]_vars

TypeOK ==
  /\ hoveredPoint = Null \/ \E i \in 1..Len(points) : points[i] = hoveredPoint
  /\ selectedPoint = Null \/ \E i \in 1..Len(points) : points[i] = selectedPoint
  /\ hoverTimeout \in Nat

(***************************************************************************)
(* Properties.                                                             *)
(***************************************************************************)
HoverClearPending == \E tm \in timers : tm.cb = "clearHover"

\* the positions along the ray of the intersected points whose category is
\* visible
VisibleHits == {i \in 1..Len(ray) : categoryStyles[points[ray[i]].label].visible}

\* C1: once a frame reports a miss while Hover is non-null and no later
\* frame reports a hit, Hover is null when more than the debounce delay has
\* passed since that miss (missAge is only kept while Hover is non-null).
C1_HoverClearsAfterDelay == missAge <= HoverDelay

\* C2: if the pointer ray hits a point in two consecutive frames, Hover is
\* not null when the second of them starts (Hover can only become null, not
\* non-null, between frames, so it was then never null in between).
C2_NoFlickerBetweenHits ==
  [][(lastOp' = "Frame" /\ frameHit /\ frameHit') => hoveredPoint # Null]_vars

\* C3: after a frame, a Hover that still references a point of an invisible
\* category is on its way to null: a hover-clear timer is pending.
C3_HiddenCategoryLosesHover ==
  (lastOp = "Frame" /\ hoveredPoint # Null
     /\ ~categoryStyles[hoveredPoint.label].visible)
  => HoverClearPending

\* C4: after a frame whose ray intersects points of two or more visible
\* categories, Hover is the intersected visible point closest along the ray.
C4_ClosestAcrossBatches ==
  (lastOp = "Frame"
     /\ Cardinality({points[ray[i]].label : i \in VisibleHits}) >= 2)
  => hoveredPoint = points[ray[Min(VisibleHits)]]

\* C5: after a click, Selection is null if the ray intersects no point of a
\* visible category, and otherwise it is the intersected visible point that
\* no other intersected visible point precedes along the ray.
C5_ClickSemantics ==
  lastOp = "Click" =>
    IF VisibleHits = {} THEN selectedPoint = Null
    ELSE \E i \in VisibleHits :
           /\ selectedPoint = points[ray[i]]
           /\ \A j \in VisibleHits : i <= j

\* a click landed on a point while Hover referenced another point
C5_Witness ==
  /\ lastOp = "Click"
  /\ selectedPoint # Null
  /\ hoveredPoint # Null
  /\ hoveredPoint # selectedPoint

\* C6: a failed capture is handed to the caller of takeScreenshot as a
\* failure result and leaves the application running.
C6_CaptureFailureSurfaced ==
  lastCapture \in {"empty", "throws"}
  => (takeScreenshotResult = "failure" /\ ~crashed)

\* C7: the capture trigger is never active for longer than the reset delay.
C7_TriggerSelfResets == screenshotTrigger => activeAge <= CaptureDelay

\* the reset callback has just returned an activated trigger to inactive
\* while a later reset timer is still pending
C7_Witness ==
  /\ lastOp = "ResetTimerFire"
  /\ ~screenshotTrigger
  /\ ResetTimers # {}
  /\ shots = 1

\* C8: each activation of the trigger calls the capture callback exactly
\* once, whatever is rendered or requested while the trigger is active.
C8_SingleShotCapture ==
  /\ shots <= 1
  /\ (screenshotTrigger /\ ~capturePending) => shots = 1

\* takeScreenshot was called while the trigger was already active
C8_Witness ==
  /\ lastOp = "takeScreenshot"
  /\ ~capturePending
  /\ Cardinality(ResetTimers) = 2
  /\ shots = 1

\* C9: while the trigger is active no overlay is displayed, and the capture
\* callback has only run with the trigger active and no overlay displayed.
C9_OverlaysHiddenDuringCapture ==
  /\ screenshotTrigger => (tooltip = Null /\ panel = Null)
  /\ ~captureSawOverlay

\* a capture ran while a point was selected and a point was hovered
C9_Witness ==
  /\ lastOp = "SceneCapture"
  /\ screenshotTrigger
  /\ lastCapture = "ok"
  /\ selectedPoint # Null
  /\ hoveredPoint # Null

\* C10: the tooltip is displayed only if Hover is non-null, Selection is
\* null and the trigger is inactive; it then shows the hovered point.
C10_HoverSuppression ==
  /\ tooltip # Null =>
       (hoveredPoint # Null /\ selectedPoint = Null /\ ~screenshotTrigger
          /\ tooltip = hoveredPoint)
  /\ selectedPoint # Null => tooltip = Null

\* a point is hovered while a point is selected and no capture is active
C10_Witness ==
  /\ hoveredPoint # Null
  /\ selectedPoint # Null
  /\ ~screenshotTrigger
  /\ tooltip = Null

(***************************************************************************)
(* Order of first occurrence of the labels of a point sequence.            *)
(***************************************************************************)
FirstIndex(pts, l) == Min({i \in 1..Len(pts) : pts[i].label = l})

IsFirstSeenOrder(order, pts) ==
  /\ {order[i] : i \in 1..Len(order)} = {pts[i].label : i \in 1..Len(pts)}
  /\ \A i, j \in 1..Len(order) :
       i < j => FirstIndex(pts, order[i]) < FirstIndex(pts, order[j])

BatchCats == [i \in 1..Len(batches) |-> batches[i].cat]

\* C11: while points are loaded, both the application's category list and
\* the sequence of per-category batches of the scene enumerate the distinct
\* labels in the order of their first occurrence in the ingested points,
\* also for labels that look like non-negative integers.
C11_CategoryOrder ==
  Mounted => /\ IsFirstSeenOrder(categories, points)
             /\ IsFirstSeenOrder(BatchCats, points)

StyleFields == {"color", "shape", "visible"}

\* C12: in every state reached by handleDataLoaded, updateCategoryStyle,
\* toggleAxes and clearData, the keys of the style registry are exactly the
\* distinct labels of the current points, every entry has the fields color,
\* shape and visible, and every rendered batch has its registry entry as
\* its style.
C12_OneStylePerCategory ==
  /\ DOMAIN categoryStyles = {points[i].label : i \in 1..Len(points)}
  /\ \A c \in DOMAIN categoryStyles : DOMAIN categoryStyles[c] = StyleFields
  /\ \A i \in 1..Len(batches) :
       /\ batches[i].cat \in DOMAIN categoryStyles
       /\ batches[i].style = categoryStyles[batches[i].cat]

\* two categories are loaded and a style update has hidden one of them
C12_Witness ==
  /\ lastOp = "updateCategoryStyle"
  /\ Len(batches) = 2
  /\ \E c \in DOMAIN categoryStyles : ~categoryStyles[c].visible

\* C13: updateCategoryStyle(category, updates) sets the fields named in
\* updates of that category's style to the given values and leaves every
\* other field of that style, every other category's style, the points, the
\* category list and showAxes unchanged.
C13_StyleMerge ==
  [][lastOp' = "updateCategoryStyle" =>
       LET c == lastArgs'[1]
           u == lastArgs'[2]
       IN /\ points' = points
          /\ categories' = categories
          /\ showAxes' = showAxes
          /\ DOMAIN categoryStyles' = DOMAIN categoryStyles
          /\ \A k \in DOMAIN categoryStyles :
               /\ DOMAIN categoryStyles'[k] = DOMAIN categoryStyles[k]
               /\ \A f \in DOMAIN categoryStyles[k] :
                    categoryStyles'[k][f] =
                      IF k = c /\ f \in DOMAIN u THEN u[f]
                      ELSE categoryStyles[k][f]]_vars

\* an update of one field reached a style in which an earlier update had
\* changed another field, next to a second category
C13_Witness ==
  /\ lastOp = "updateCategoryStyle"
  /\ Len(categories) = 2
  /\ DOMAIN lastArgs[2] = {"visible"}
  /\ categoryStyles[lastArgs[1]].shape = "square"
  /\ categoryStyles[lastArgs[1]].color # DefaultStyles(categories)[lastArgs[1]].color

\* C14: over any sequence of operations each marker shape is rasterized at
\* most once: an operation never calls createShapeTexture twice for one
\* shape, nor for a shape that an earlier operation already rasterized.
C14_TextureCache ==
  [][\A i \in 1..Len(rasterized') :
       /\ rasterized'[i] \notin rasterizedShapes
       /\ \A j \in 1..Len(rasterized') :
            i # j => rasterized'[i] # rasterized'[j]]_vars

\* the batches (by index) that hold the point p
BatchesHolding(p) ==
  {b \in 1..Len(batches) :
     \E j \in 1..Len(batches[b].points) : batches[b].points[j] = p}

\* C15: after a point sequence is ingested, every point lies in exactly one
\* batch, the batch of its label; each batch holds the points of its label
\* in input order and a buffer of three entries per point that are the x, y
\* and z of that point; the ingested points are stored unmodified.
C15_GroupingAndPacking ==
  lastOp = "handleDataLoaded" =>
    LET pts == processCSV(lastArgs[1])
    IN /\ points = pts
       /\ \A i \in 1..Len(pts) :
            /\ Cardinality(BatchesHolding(pts[i])) = 1
            /\ \A b \in BatchesHolding(pts[i]) : batches[b].cat = pts[i].label
       /\ \A b \in 1..Len(batches) :
            LET own == SelectSeq(pts, LAMBDA p : p.label = batches[b].cat)
                buf == batches[b].positions
            IN /\ batches[b].points = own
               /\ Len(buf) = 3 * Len(own)
               /\ \A i \in 1..Len(own) :
                    /\ buf[3 * (i - 1) + 1] = own[i].x
                    /\ buf[3 * (i - 1) + 2] = own[i].y
                    /\ buf[3 * (i - 1) + 3] = own[i].z

\* the number of distinct labels seen before position i of the points
Rank(i) == Cardinality({points[j].label : j \in 1..(i - 1)})

IsFirstOccurrence(i) == \A j \in 1..(i - 1) : points[j].label # points[i].label

\* C16: after an ingestion the k-th distinct label in first-seen order
\* (from 0) has the default style with palette colour k mod 10, shape circle
\* and visible true; two of the first ten categories have different
\* colours, and categories k and k + 10 have the same colour.
C16_DefaultPalette ==
  lastOp = "handleDataLoaded" =>
    /\ \A i \in 1..Len(points) :
         IsFirstOccurrence(i) =>
           categoryStyles[points[i].label] =
             [color |-> colorPalette[(Rank(i) % 10) + 1],
              shape |-> "circle", visible |-> TRUE]
    /\ \A i, j \in 1..Len(points) :
         IsFirstOccurrence(i) /\ IsFirstOccurrence(j) =>
           LET ci == categoryStyles[points[i].label].color
               cj == categoryStyles[points[j].label].color
           IN /\ (Rank(i) < Rank(j) /\ Rank(j) < 10) => ci # cj
              /\ (Rank(j) = Rank(i) + 10) => ci = cj

\* a file with more than ten distinct labels has been ingested
C16_Witness ==
  /\ lastOp = "handleDataLoaded"
  /\ Len(categories) > 10
  /\ Len(points) > Len(categories)

\* C17: in every state there is exactly one highlight, at the selected
\* point, if Selection is non-null, and no highlight if Selection is null;
\* there are never two highlights.
C17_HighlightTiedToSelection ==
  /\ Cardinality(highlight) <= 1
  /\ selectedPoint # Null => highlight = {selectedPoint}
  /\ selectedPoint = Null => highlight = {}

\* a click selected a point while some category is hidden, and the one
\* highlight is at the selected point
C17_Witness ==
  /\ lastOp = "Click"
  /\ selectedPoint # Null
  /\ highlight = {selectedPoint}
  /\ \E c \in DOMAIN categoryStyles : ~categoryStyles[c].visible

\* C18: after an ingestion of zero points, and after clearData, no failure
\* was raised, nothing is rendered (no batch, no highlight, no overlay), no
\* frame callback exists that would test a batch, and Hover and Selection
\* are null.
C18_EmptyState ==
  (lastOp = "clearData" \/ (lastOp = "handleDataLoaded" /\ lastArgs = << << >> >>))
  => /\ ~crashed
     /\ points = << >>
     /\ batches = << >>
     /\ highlight = {}
     /\ tooltip = Null /\ panel = Null
     /\ hoveredPoint = Null /\ selectedPoint = Null
     /\ ~ENABLED Frame

\* a file without points was ingested after an earlier file had been
\* rendered and cleared
C18_Witness ==
  /\ lastOp = "handleDataLoaded"
  /\ lastArgs = << << >> >>
  /\ rasterizedShapes # {}

\* the visible categories, in batch order: the batches whose frame callback
\* calls handleHover
ReportingBatches ==
  SelectSeq(BatchOrder(points), LAMBDA c : categoryStyles[c].visible)

\* the latest frame's last call of handleHover passed a point
LastReportHit ==
  /\ ReportingBatches # << >>
  /\ PickInCategory(ray, points, ReportingBatches[Len(ReportingBatches)]) # Null

C20_SelectionOnlyOnClick ==
  [][selectedPoint' # selectedPoint => lastOp' \in {"Click", "ClosePanel"}]_vars

\* C20, amended: Selection changes only by a click on a point, a click on
\* empty space, the close button of the detail panel, or the unmounting of
\* the visualizer, which discards it and happens when no points are left
\* (clearData, a completed read of a file without points) or an uncaught
\* failure takes the application down; frames, timer expiry, style updates,
\* axis toggles and capture activation or reset leave it unchanged.
C20_SelectionOnlyOnClickOrUnmount ==
  [][selectedPoint' # selectedPoint =>
       \/ lastOp' \in {"Click", "ClosePanel"}
       \/ ~Mounted']_vars

\* a style update has hidden the category of the selected point, and the
\* point is still selected
C20_Witness ==
  /\ lastOp = "updateCategoryStyle"
  /\ selectedPoint # Null
  /\ ~categoryStyles[selectedPoint.label].visible

\* p is an element of the currently loaded point sequence
Loaded(p) == \E i \in 1..Len(points) : points[i] = p

\* C21: in every state Hover and Selection are each either null or an
\* element of the currently loaded point sequence.
C21_NoDanglingReferences ==
  /\ hoveredPoint = Null \/ Loaded(hoveredPoint)
  /\ selectedPoint = Null \/ Loaded(selectedPoint)

\* C22: after an ingestion, for every ingested point the colour that
\* processCSV stored on the point equals the colour of the default style that
\* handleDataLoaded created for the point's label.
C22_ColoursAgree ==
  lastOp = "handleDataLoaded" =>
    LET pts == processCSV(lastArgs[1])
        styles == DefaultStyles(DistinctLabels(pts, << >>))
    IN \A i \in 1..Len(pts) : pts[i].color = styles[pts[i].label].color

====
